---- MODULE Spec2Model ----
(***************************************************************************)
(* Model of the chocolate milk bootloader entry point                      *)
(* (src/bootloader/src/main.rs): every core runs entry(bootloader_end);    *)
(* the first core through the kernel_entry lock downloads and loads the    *)
(* kernel and builds the trampoline and kernel page tables, every core     *)
(* then maps its own stack and hands off through enter64.                  *)
(*                                                                         *)
(* Addresses are byte addresses.  TLC integers are 32 bits wide, so the    *)
(* layout constants imported from boot_args are placed below 2^31; the     *)
(* no-execute bit of a page table entry (bit 63) is kept as a separate     *)
(* field of the entry.                                                     *)
(***************************************************************************)
EXTENDS Integers, Sequences, FiniteSets, TLC

\* ------------------------------------------------------------------ bounds

\* Number of cores that invoke entry().
NumCores == 3

\* Number of 4 KiB pages of the linear physical window.
WindowPages == 2

\* Iterations of the screen-clearing loop `for _ in 0..100`.
ClearLines == 1

Cores == 1..NumCores

\* ------------------------------------------------------- program constants

\* step_by(4096): the 4 KiB page granularity used by every loop of entry().
PAGE_SIZE == 4096

\* page_table::PAGE_PRESENT and PAGE_WRITE (bits 0 and 1 of an entry).
PAGE_PRESENT == 1
PAGE_WRITE == 2

\* boot_args layout constants.
KERNEL_PHYS_WINDOW_BASE == 1073741824
KERNEL_PHYS_WINDOW_SIZE == WindowPages * PAGE_SIZE
KERNEL_STACKS_BASE == 536870912
KERNEL_STACK_SIZE == 8192
KERNEL_STACK_PAD == 4096

\* First physical frame handed out by the frame allocator.
FRAME_BASE == 1048576

\* --------------------------------------------------------------- options

None == [some |-> FALSE]
Some(v) == [some |-> TRUE, val |-> v]

\* ------------------------------------------------------------ bit helpers

RECURSIVE BitOr(_, _)
BitOr(a, b) ==
    IF a = 0 THEN b
    ELSE IF b = 0 THEN a
    ELSE (IF a % 2 = 1 \/ b % 2 = 1 THEN 1 ELSE 0) + 2 * BitOr(a \div 2, b \div 2)

\* `x as u32`: x modulo 2^32.  2^32 is written as 65536 * 65536 applied to
\* the quotient, so that no intermediate value leaves the integers the model
\* checker can hold for the addresses of the model.
AsU32(x) == x - ((x \div 65536) \div 65536) * 65536 * 65536

\* A page table entry: lo holds bits 0..62 (address and flag bits), nx bit 63.
EntryPresent(e) == e.lo % 2 = 1
EntryWrite(e) == (e.lo \div 2) % 2 = 1
EntryNX(e) == e.nx
EntryAddr(e) == e.lo - (e.lo % PAGE_SIZE)

\* -------------------------------------------------- physical frame allocator

\* mm::PhysicalMemory over BOOT_ARGS.free_memory: frames are handed out one
\* at a time, page aligned and zeroed, until the pool is exhausted.
\* Exhaustion is fatal: the core that asked halts (oom in the results below).
NewPool(n) == [next |-> 0, avail |-> n]
AllocOk(pm) == pm.avail > 0
AllocFrame(pm) == FRAME_BASE + pm.next * PAGE_SIZE

\* Mutant: a frame handed out stays the next free frame.
AllocTakeNoAdvance(pm) == [next |-> pm.next, avail |-> pm.avail - 1]

\* The pool after the frame AllocFrame names has been handed out.
AllocTake(pm) == [next |-> pm.next + 1, avail |-> pm.avail - 1]

\* ------------------------------------------------------------- page tables

\* A page table: its root frame, its intermediate tables (level 3 = page
\* directory pointer table, 2 = page directory, 1 = page table, keyed by the
\* virtual address prefix they translate) and its leaf entries by page
\* address.
TablePrefix(v, lvl) ==
    IF lvl = 3 THEN (v \div 1073741824) \div 512
    ELSE IF lvl = 2 THEN v \div 1073741824
    ELSE v \div 2097152

HasTable(pt, v, lvl) ==
    \E t \in pt.tables : t.level = lvl /\ t.prefix = TablePrefix(v, lvl)

\* PageTable::new: a fresh zeroed root frame.
PageTableNew(pm) ==
    IF ~AllocOk(pm) THEN [ok |-> FALSE, oom |-> TRUE, pt |-> None, pm |-> pm]
    ELSE [ok |-> TRUE, oom |-> FALSE,
          pt |-> [root |-> AllocFrame(pm), tables |-> {}, leaves |-> <<>>],
          pm |-> AllocTake(pm)]

\* Walk from the root to the level 1 table of v, allocating the missing
\* intermediate tables lazily.
RECURSIVE Walk(_, _, _, _)
Walk(pt, pm, v, lvl) ==
    IF lvl = 0 THEN [ok |-> TRUE, oom |-> FALSE, pt |-> pt, pm |-> pm]
    ELSE IF HasTable(pt, v, lvl) THEN Walk(pt, pm, v, lvl - 1)
    ELSE IF ~AllocOk(pm) THEN [ok |-> FALSE, oom |-> TRUE, pt |-> pt, pm |-> pm]
    ELSE Walk([pt EXCEPT !.tables = @ \cup
                  {[level |-> lvl, prefix |-> TablePrefix(v, lvl),
                    frame |-> AllocFrame(pm)]}],
              AllocTake(pm), v, lvl - 1)

\* map_raw: install one leaf entry with exactly the given value; fails on a
\* misaligned address and when the page is already mapped (never
\* overwrites).
MapRaw(pt, pm, v, entry) ==
    IF v % PAGE_SIZE # 0 THEN [ok |-> FALSE, oom |-> FALSE, pt |-> pt, pm |-> pm]
    ELSE LET w == Walk(pt, pm, v, 3) IN
         IF ~w.ok THEN w
         ELSE IF v \in DOMAIN w.pt.leaves
              THEN [ok |-> FALSE, oom |-> FALSE, pt |-> w.pt, pm |-> w.pm]
         ELSE [ok |-> TRUE, oom |-> FALSE,
               pt |-> [w.pt EXCEPT !.leaves = @ @@ (v :> entry)],
               pm |-> w.pm]

\* The entry map and map_init install for a fresh frame with the given
\* permissions.
PermEntry(frame, write, execute) ==
    [lo |-> BitOr(BitOr(frame, IF write THEN PAGE_WRITE ELSE 0), PAGE_PRESENT),
     nx |-> ~execute]

\* The page loop of map and map_init: one fresh zeroed frame per page, filled
\* from the byte source when there is one, then installed.  init is 0 for no
\* byte source and otherwise names the closure entry() passes for that
\* section of the image.  mem records, for every frame that was filled, the
\* closure and the offset of the frame's first byte; a byte of it is the
\* closure applied to that offset plus the byte's index (FrameByte below).
\* Every other frame reads zero.
RECURSIVE MapPages(_, _, _, _, _, _, _, _, _)
MapPages(pt, pm, m, v, size, off, write, execute, init) ==
    IF off >= size
    THEN [ok |-> TRUE, oom |-> FALSE, pt |-> pt, pm |-> pm, mem |-> m]
    ELSE IF ~AllocOk(pm)
    THEN [ok |-> FALSE, oom |-> TRUE, pt |-> pt, pm |-> pm, mem |-> m]
    ELSE LET frame == AllocFrame(pm)
             m2    == IF init # 0
                      THEN m @@ (frame :> [init |-> init, base |-> off])
                      ELSE m
             r     == MapRaw(pt, AllocTake(pm), v + off,
                             PermEntry(frame, write, execute))
         IN IF ~r.ok
            THEN [ok |-> FALSE, oom |-> r.oom, pt |-> r.pt, pm |-> r.pm, mem |-> m2]
            ELSE MapPages(r.pt, r.pm, m2, v, size, off + PAGE_SIZE,
                          write, execute, init)

\* Requests with a misaligned base or a size that is not a positive multiple
\* of the page size are rejected.
BadRequest(v, size) ==
    v % PAGE_SIZE # 0 \/ size <= 0 \/ size % PAGE_SIZE # 0

\* map: zero-filled pages.
Map(pt, pm, m, v, size, read, write, execute) ==
    IF BadRequest(v, size)
    THEN [ok |-> FALSE, oom |-> FALSE, pt |-> pt, pm |-> pm, mem |-> m]
    ELSE MapPages(pt, pm, m, v, size, 0, write, execute, 0)

\* map_init: pages filled from the byte source.
MapInit(pt, pm, m, v, size, read, write, execute, init) ==
    IF BadRequest(v, size)
    THEN [ok |-> FALSE, oom |-> FALSE, pt |-> pt, pm |-> pm, mem |-> m]
    ELSE MapPages(pt, pm, m, v, size, 0, write, execute, init)

Mapped(pt, v) == v \in DOMAIN pt.leaves

\* ------------------------------------------------------------------ inputs

\* Raw bytes of a section: n non-zero bytes.
RawBytes(n) == [i \in 1..n |-> ((i * 7) % 255) + 1]

Section(vaddr, vsize, raw, read, write, execute) ==
    [vaddr |-> vaddr, vsize |-> vsize, raw |-> raw,
     read |-> read, write |-> write, execute |-> execute]

\* The kernel images the boot server may hold: the entry point and the
\* sections PeParser yields, in order.
\*  1: one section, virtual size two pages, one page of raw bytes, R-X;
\*  2: a section whose raw bytes are longer than its virtual size, then a
\*     section placed inside the linear physical window;
\*  3: a section inside the physical window, then an ordinary section.
ImageList ==
    << [entry_point |-> 65664,
        sections |-> << Section(65536, 8192, RawBytes(4096), TRUE, FALSE, TRUE) >>],
       [entry_point |-> 65536,
        sections |-> << Section(65536, 4096, RawBytes(4100), TRUE, TRUE, FALSE),
                        Section(KERNEL_PHYS_WINDOW_BASE, 4096, RawBytes(16),
                                TRUE, TRUE, FALSE) >>],
       [entry_point |-> 69632,
        sections |-> << Section(KERNEL_PHYS_WINDOW_BASE + 4096, 4096, RawBytes(8),
                                TRUE, FALSE, FALSE),
                        Section(69632, 4096, RawBytes(100), TRUE, FALSE, TRUE) >>] >>

\* bootloader_end values: page aligned and not.
BootloaderEnds == {4096, 6144}

\* Sizes of the free physical memory pool, in frames: too small for the
\* trampoline table, for the kernel table, for the sections, for every
\* stack, and ample.
FramePools == {4, 8, 13, 17, 64}

\* ------------------------------------------------------------------- state

VARIABLES
    pc,                     \* position of each core in entry()
    lock,                   \* holder of each LockCell of BOOT_ARGS (0 = free)
    serial,                 \* BOOT_ARGS.serial is Some
    free_memory,            \* BOOT_ARGS.free_memory
    kernel_entry,           \* BOOT_ARGS.kernel_entry
    page_table,             \* BOOT_ARGS.page_table
    trampoline_page_table,  \* BOOT_ARGS.trampoline_page_table
    stack_vaddr,            \* BOOT_ARGS.stack_vaddr
    mem,                    \* content of the physical frames written so far
    bootloader_end,         \* argument of entry()
    image_id,               \* the image the boot server holds
    pool_size,              \* frames of free physical memory found by mm::init
    trampoline_table,       \* local `trampoline_table` of each core
    table,                  \* local `table` of each core
    stack_addr,             \* local `stack_addr` of each core
    args,                   \* (entry_point, stack, cr3, tramp_cr3) of each core
    entered,                \* the arguments each core passed to enter64
    lines,                  \* print! calls of the banner each core has done
    section,                \* the section the parser hands each core's closure next
    hist                    \* history: what the one-time section did

vars == << pc, lock, serial, free_memory, kernel_entry, page_table,
           trampoline_page_table, stack_vaddr, mem, bootloader_end, image_id,
           pool_size, trampoline_table, table, stack_addr, args, entered, lines,
           section, hist >>

inputs == << bootloader_end, image_id, pool_size >>
fields == << serial, free_memory, kernel_entry, page_table,
             trampoline_page_table, stack_vaddr, mem >>
locals == << trampoline_table, table, stack_addr, args, entered, lines,
             section >>

Image == ImageList[image_id]

\* The byte source entry() passes to map_init for section k:
\* |off| raw.get(off as usize).copied().unwrap_or(0)
ByteSource(k, off) ==
    LET raw == Image.sections[k].raw IN
    IF off < Len(raw) THEN raw[off + 1] ELSE 0

\* Byte i of a physical frame.
FrameByte(frame, i) ==
    IF frame \in DOMAIN mem
    THEN ByteSource(mem[frame].init, mem[frame].base + i)
    ELSE 0

\* The byte the kernel table translates virtual address v to.
ByteAt(pt, v) ==
    FrameByte(EntryAddr(pt.leaves[v - (v % PAGE_SIZE)]), v % PAGE_SIZE)

LockNames == {"serial", "print_lock", "free_memory", "kernel_entry",
              "page_table", "trampoline_page_table"}

Init ==
    /\ pc = [c \in Cores |-> "serial_lock"]
    /\ lock = [l \in LockNames |-> 0]
    /\ serial = FALSE
    /\ free_memory = None
    /\ kernel_entry = None
    /\ page_table = None
    /\ trampoline_page_table = None
    /\ stack_vaddr = KERNEL_STACKS_BASE
    /\ mem = <<>>
    /\ bootloader_end \in BootloaderEnds
    /\ image_id \in 1..Len(ImageList)
    /\ pool_size \in FramePools
    /\ trampoline_table = [c \in Cores |-> None]
    /\ table = [c \in Cores |-> None]
    /\ stack_addr = [c \in Cores |-> None]
    /\ args = [c \in Cores |-> None]
    /\ entered = [c \in Cores |-> None]
    /\ lines = [c \in Cores |-> 0]
    /\ section = [c \in Cores |-> 1]
    /\ hist = [downloads |-> 0, parses |-> 0, tramp_builds |-> 0,
               table_builds |-> 0, loads |-> 0, serial_inits |-> 0,
               initializers |-> {}, skippers |-> {}, map_init |-> <<>>,
               order |-> <<>>, published |-> None,
               serial_first |-> 0, serial_initializers |-> {},
               fetch_adds |-> [c \in Cores |-> 0],
               stack_maps |-> [c \in Cores |-> 0],
               handoffs |-> [c \in Cores |-> 0]]

\* ------------------------------------------------------------------- locks

\* LockCell::lock spins until the cell is free, then takes it.
Free(l) == lock[l] = 0
Acquire(c, l) == [lock EXCEPT ![l] = c]
\* Dropping the guards of a set of cells.
Release(ls) == [l \in LockNames |-> IF l \in ls THEN 0 ELSE lock[l]]
Holds(c, l) == lock[l] = c

\* print!: take the print lock, then the serial lock, write the text, drop
\* both.  Each of the two lock() calls spins until its cell is free.
PrintTakeLock(c, next) ==
    /\ Free("print_lock")
    /\ lock' = Acquire(c, "print_lock")
    /\ pc' = [pc EXCEPT ![c] = next]

PrintTakeSerial(c, next) ==
    /\ Holds(c, "print_lock")
    /\ Free("serial")
    /\ lock' = Acquire(c, "serial")
    /\ pc' = [pc EXCEPT ![c] = next]

PrintDone(c, next) ==
    /\ Holds(c, "print_lock")
    /\ Holds(c, "serial")
    /\ lock' = Release({"serial", "print_lock"})
    /\ pc' = [pc EXCEPT ![c] = next]

Goto(c, where) == pc' = [pc EXCEPT ![c] = where]

\* A failed expect/unwrap/assert panics: the core halts where it is; nothing
\* unwinds, so the guards it holds are never dropped.
Panic(c) == Goto(c, "halted")

\* ---------------------------------------------------------- serial, mm::init

\* let mut serial = BOOT_ARGS.serial.lock();
SerialLock(c) ==
    /\ pc[c] = "serial_lock"
    /\ Free("serial")
    /\ lock' = Acquire(c, "serial")
    /\ hist' = [hist EXCEPT !.serial_first = IF @ = 0 THEN c ELSE @]
    /\ Goto(c, "serial_check")
    /\ UNCHANGED << serial, free_memory, kernel_entry, page_table,
                    trampoline_page_table, stack_vaddr, mem, bootloader_end,
                    image_id, pool_size, trampoline_table, table, stack_addr,
                    args, entered, lines,
                    section >>

\* Mutant: the serial guard is still alive when the banner is printed.
SerialInitKeepsGuard(c) ==
    /\ pc[c] = "serial_check"
    /\ Holds(c, "serial")
    /\ IF ~serial
       THEN /\ serial' = TRUE
            /\ hist' = [hist EXCEPT !.serial_inits = @ + 1,
                                    !.serial_initializers = @ \cup {c}]
            /\ UNCHANGED lock
            /\ Goto(c, "banner")
       ELSE /\ UNCHANGED << serial, hist >>
            /\ lock' = Release({"serial"})
            /\ Goto(c, "mm_init")
    /\ UNCHANGED << free_memory, kernel_entry, page_table,
                    trampoline_page_table, stack_vaddr, mem, bootloader_end,
                    image_id, pool_size, trampoline_table, table, stack_addr,
                    args, entered, lines,
                    section >>

\* Mutant: the driver set up without the is_none() check.
SerialInitUnguarded(c) ==
    /\ pc[c] = "serial_check"
    /\ Holds(c, "serial")
    /\ lock' = Release({"serial"})
    /\ serial' = TRUE
    /\ hist' = [hist EXCEPT !.serial_inits = @ + 1,
                            !.serial_initializers = @ \cup {c}]
    /\ Goto(c, "banner")
    /\ UNCHANGED << free_memory, kernel_entry, page_table,
                    trampoline_page_table, stack_vaddr, mem, bootloader_end,
                    image_id, pool_size, trampoline_table, table, stack_addr,
                    args, entered, lines,
                    section >>

\* if serial.is_none() { *serial = Some(SerialPort::new()); drop(serial); ... }
SerialInit(c) ==
    /\ pc[c] = "serial_check"
    /\ Holds(c, "serial")
    /\ lock' = Release({"serial"})
    /\ IF ~serial
       THEN /\ serial' = TRUE
            /\ hist' = [hist EXCEPT !.serial_inits = @ + 1,
                                    !.serial_initializers = @ \cup {c}]
            /\ Goto(c, "banner")
       ELSE /\ UNCHANGED << serial, hist >>
            /\ Goto(c, "mm_init")
    /\ UNCHANGED << free_memory, kernel_entry, page_table,
                    trampoline_page_table, stack_vaddr, mem, bootloader_end,
                    image_id, pool_size, trampoline_table, table, stack_addr,
                    args, entered, lines,
                    section >>

\* The print! calls of the banner: the screen clear and the two lines.
BannerLines == ClearLines + 2

\* One print! of the banner, lines 57-62: its print lock,
BannerPrint(c) ==
    /\ pc[c] = "banner"
    /\ PrintTakeLock(c, "banner_serial")
    /\ UNCHANGED << fields, inputs, locals, hist >>

\* its serial lock,
BannerSerial(c) ==
    /\ pc[c] = "banner_serial"
    /\ PrintTakeSerial(c, "banner_emit")
    /\ UNCHANGED << fields, inputs, locals, hist >>

\* and the text written and both guards dropped; the next print! follows, or
\* mm::init() after the last.
BannerEmit(c) ==
    /\ pc[c] = "banner_emit"
    /\ PrintDone(c, IF lines[c] + 1 < BannerLines THEN "banner" ELSE "mm_init")
    /\ lines' = [lines EXCEPT ![c] = @ + 1]
    /\ UNCHANGED << fields, inputs, trampoline_table, table, stack_addr, args,
                    entered, section, hist >>

\* mm::init(): sets up free physical memory the first time it runs.
MmInit(c) ==
    /\ pc[c] = "mm_init"
    /\ Free("free_memory")
    /\ free_memory' = IF free_memory.some THEN free_memory
                      ELSE Some(NewPool(pool_size))
    /\ Goto(c, "lock_kernel_entry")
    /\ UNCHANGED << lock, serial, kernel_entry, page_table,
                    trampoline_page_table, stack_vaddr, mem, bootloader_end,
                    image_id, pool_size, trampoline_table, table, stack_addr,
                    args, entered, hist, lines,
                    section >>

\* ------------------------------------------------- taking the three guards

\* Mutant: the kernel_entry cell is taken without waiting for its holder.
LockKernelEntryNoWait(c) ==
    /\ pc[c] = "lock_kernel_entry"
    /\ lock' = Acquire(c, "kernel_entry")
    /\ hist' = [hist EXCEPT !.order = Append(@, c)]
    /\ Goto(c, "lock_page_table")
    /\ UNCHANGED << fields, inputs, locals >>

\* let mut kernel_entry = BOOT_ARGS.kernel_entry.lock();
LockKernelEntry(c) ==
    /\ pc[c] = "lock_kernel_entry"
    /\ Free("kernel_entry")
    /\ lock' = Acquire(c, "kernel_entry")
    /\ hist' = [hist EXCEPT !.order = Append(@, c)]
    /\ Goto(c, "lock_page_table")
    /\ UNCHANGED << fields, inputs, locals >>

\* let mut page_table = BOOT_ARGS.page_table.lock();
LockPageTable(c) ==
    /\ pc[c] = "lock_page_table"
    /\ Free("page_table")
    /\ lock' = Acquire(c, "page_table")
    /\ Goto(c, "lock_tramp_table")
    /\ UNCHANGED << fields, inputs, locals, hist >>

\* let mut tramp_table = BOOT_ARGS.trampoline_page_table.lock();
LockTrampTable(c) ==
    /\ pc[c] = "lock_tramp_table"
    /\ Free("trampoline_page_table")
    /\ lock' = Acquire(c, "trampoline_page_table")
    /\ Goto(c, "check")
    /\ UNCHANGED << fields, inputs, locals, hist >>

\* ------------------------------------------------------ the one-time section

\* kernel_entry.is_none()
KernelNotLoaded == ~kernel_entry.some

\* Mutant: the one-time block entered without the is_none() check.
CheckKernelEntryUnguarded(c) ==
    /\ pc[c] = "check"
    /\ Goto(c, "download")
    /\ hist' = [hist EXCEPT !.initializers = @ \cup {c}]
    /\ UNCHANGED << lock, fields, inputs, locals >>

\* if kernel_entry.is_none() { assert!(page_table.is_none() &&
\* tramp_table.is_none()); ... }
CheckKernelEntry(c) ==
    /\ pc[c] = "check"
    /\ IF KernelNotLoaded
       THEN IF ~page_table.some /\ ~trampoline_page_table.some
            THEN /\ Goto(c, "download")
                 /\ hist' = [hist EXCEPT !.initializers = @ \cup {c}]
            ELSE /\ Panic(c)
                 /\ UNCHANGED hist
       ELSE /\ Goto(c, "lock_pmem")
            /\ hist' = [hist EXCEPT !.skippers = @ \cup {c}]
    /\ UNCHANGED << lock, fields, inputs, locals >>

\* Mutant: a failed download drops the three guards as it halts.
DownloadFailureUnlocks(c) ==
    /\ pc[c] = "download"
    /\ hist' = [hist EXCEPT !.downloads = @ + 1]
    /\ \E ok \in BOOLEAN :
         IF ok
         THEN Goto(c, "parse") /\ UNCHANGED lock
         ELSE /\ Panic(c)
              /\ lock' = Release({"kernel_entry", "page_table",
                                  "trampoline_page_table"})
    /\ UNCHANGED << fields, inputs, locals >>

\* pxe::download("chocolate_milk.kern").expect(..): the transfer may fail.
Download(c) ==
    /\ pc[c] = "download"
    /\ hist' = [hist EXCEPT !.downloads = @ + 1]
    /\ \E ok \in BOOLEAN : IF ok THEN Goto(c, "parse") ELSE Panic(c)
    /\ UNCHANGED << lock, fields, inputs, locals >>

\* PeParser::parse(&kernel).expect(..): the file may be malformed.
Parse(c) ==
    /\ pc[c] = "parse"
    /\ hist' = [hist EXCEPT !.parses = @ + 1]
    /\ \E ok \in BOOLEAN : IF ok THEN Goto(c, "lock_pmem_once") ELSE Panic(c)
    /\ UNCHANGED << lock, fields, inputs, locals >>

\* Mutant: free memory is used without taking its lock.
LockPmemOnceNoAcquire(c) ==
    /\ pc[c] = "lock_pmem_once"
    /\ IF free_memory.some THEN Goto(c, "build_tramp") ELSE Panic(c)
    /\ UNCHANGED << lock, fields, inputs, locals, hist >>

\* let mut pmem = BOOT_ARGS.free_memory.lock(); pmem.as_mut().expect(..)
LockPmemOnce(c) ==
    /\ pc[c] = "lock_pmem_once"
    /\ Free("free_memory")
    /\ lock' = Acquire(c, "free_memory")
    /\ IF free_memory.some THEN Goto(c, "build_tramp") ELSE Panic(c)
    /\ UNCHANGED << fields, inputs, locals, hist >>

\* The raw entry of the trampoline maps: paddr | PAGE_WRITE | PAGE_PRESENT.
TrampEntry(paddr) ==
    [lo |-> BitOr(BitOr(paddr, PAGE_WRITE), PAGE_PRESENT), nx |-> FALSE]

\* for paddr in (0..bootloader_end as u64).step_by(4096): map paddr at
\* vaddr == paddr and at vaddr == paddr + KERNEL_PHYS_WINDOW_BASE, each
\* unwrapped.
RECURSIVE TrampLoop(_, _, _, _)
TrampLoop(pt, pm, paddr, end) ==
    IF paddr >= end THEN [ok |-> TRUE, oom |-> FALSE, pt |-> pt, pm |-> pm]
    ELSE LET a == MapRaw(pt, pm, paddr, TrampEntry(paddr)) IN
         IF ~a.ok THEN a
         ELSE LET b == MapRaw(a.pt, a.pm, KERNEL_PHYS_WINDOW_BASE + paddr,
                              TrampEntry(paddr)) IN
              IF ~b.ok THEN b
              ELSE TrampLoop(b.pt, b.pm, paddr + 4096, end)

\* Mutant: the loop bound rounded down to a page boundary.
TrampBuildRoundedDown(pm, end) ==
    LET n == PageTableNew(pm) IN
    IF ~n.ok THEN n ELSE TrampLoop(n.pt, n.pm, 0, end - (end % 4096))

\* let mut trampoline_table = PageTable::new(&mut pmem); and its two windows.
TrampBuild(pm, end) ==
    LET n == PageTableNew(pm) IN
    IF ~n.ok THEN n ELSE TrampLoop(n.pt, n.pm, 0, end)

BuildTrampoline(c) ==
    /\ pc[c] = "build_tramp"
    /\ LET r == TrampBuild(free_memory.val, bootloader_end) IN
       /\ free_memory' = Some(r.pm)
       /\ IF r.ok
          THEN /\ trampoline_table' = [trampoline_table EXCEPT ![c] = Some(r.pt)]
               /\ Goto(c, "build_table")
          ELSE /\ UNCHANGED trampoline_table
               /\ Panic(c)
    /\ hist' = [hist EXCEPT !.tramp_builds = @ + 1]
    /\ UNCHANGED << lock, serial, kernel_entry, page_table,
                    trampoline_page_table, stack_vaddr, mem, inputs, table,
                    stack_addr, args, entered, lines,
                    section >>

\* Mutant: the linear map installed read-only.
WindowEntryReadOnly(paddr) ==
    [lo |-> BitOr(paddr, PAGE_PRESENT), nx |-> FALSE]

\* The raw entry of the linear map: paddr | PAGE_WRITE | PAGE_PRESENT.
WindowEntry(paddr) ==
    [lo |-> BitOr(BitOr(paddr, PAGE_WRITE), PAGE_PRESENT), nx |-> FALSE]

\* Mutant: the linear map stops one page early.
WindowEndShort == KERNEL_PHYS_WINDOW_SIZE - 4096

\* The bound of the linear map loop: (0..KERNEL_PHYS_WINDOW_SIZE).
WindowEnd == KERNEL_PHYS_WINDOW_SIZE

\* for paddr in (0..KERNEL_PHYS_WINDOW_SIZE).step_by(4096): map paddr at
\* KERNEL_PHYS_WINDOW_BASE + paddr, unwrapped.
RECURSIVE WindowLoop(_, _, _, _)
WindowLoop(pt, pm, paddr, end) ==
    IF paddr >= end THEN [ok |-> TRUE, oom |-> FALSE, pt |-> pt, pm |-> pm]
    ELSE LET a == MapRaw(pt, pm, KERNEL_PHYS_WINDOW_BASE + paddr,
                         WindowEntry(paddr)) IN
         IF ~a.ok THEN a
         ELSE WindowLoop(a.pt, a.pm, paddr + 4096, end)

\* let mut table = PageTable::new(&mut pmem); and the linear map.
TableBuild(pm) ==
    LET n == PageTableNew(pm) IN
    IF ~n.ok THEN n ELSE WindowLoop(n.pt, n.pm, 0, WindowEnd)

BuildKernelTable(c) ==
    /\ pc[c] = "build_table"
    /\ LET r == TableBuild(free_memory.val) IN
       /\ free_memory' = Some(r.pm)
       /\ IF r.ok
          THEN /\ table' = [table EXCEPT ![c] = Some(r.pt)]
               /\ Goto(c, "load")
          ELSE /\ UNCHANGED table
               /\ Panic(c)
    /\ hist' = [hist EXCEPT !.table_builds = @ + 1]
    /\ UNCHANGED << lock, serial, kernel_entry, page_table,
                    trampoline_page_table, stack_vaddr, mem, inputs,
                    trampoline_table, stack_addr, args, entered, lines,
                    section >>

\* pe.sections(|..| { .. }).unwrap(): the parser walks the section headers
\* and may fail (None) at any of them, which the unwrap turns into a panic.
\* For a section it calls the closure, whose first statement is map_init with
\* its result dropped; only running out of frames inside is fatal.  After
\* the last section the call returns Some and the unwrap passes.  map_init
\* records in hist.map_init what each call returned.
LoadSection(c) ==
    /\ pc[c] = "load"
    /\ \E ok \in BOOLEAN :
         IF ~ok
         THEN /\ Panic(c)
              /\ hist' = [hist EXCEPT !.loads = IF section[c] = 1 THEN @ + 1 ELSE @]
              /\ UNCHANGED << table, free_memory, mem >>
         ELSE IF section[c] > Len(Image.sections)
         THEN /\ Goto(c, "entry_print")
              /\ hist' = [hist EXCEPT !.loads = IF section[c] = 1 THEN @ + 1 ELSE @]
              /\ UNCHANGED << table, free_memory, mem >>
         ELSE LET s == Image.sections[section[c]]
                  r == MapInit(table[c].val, free_memory.val, mem, s.vaddr,
                               s.vsize, s.read, s.write, s.execute, section[c])
              IN /\ table' = [table EXCEPT ![c] = Some(r.pt)]
                 /\ free_memory' = Some(r.pm)
                 /\ mem' = r.mem
                 /\ hist' = [hist EXCEPT
                                !.loads = IF section[c] = 1 THEN @ + 1 ELSE @,
                                !.map_init = IF r.oom THEN @ ELSE Append(@, r.ok)]
                 /\ IF r.oom THEN Panic(c) ELSE Goto(c, "load_print")
    /\ UNCHANGED << lock, serial, kernel_entry, page_table,
                    trampoline_page_table, stack_vaddr, inputs,
                    trampoline_table, stack_addr, args, entered, lines,
                    section >>

\* print!("Created map ...") of the closure, line 139: its print lock,
LoadPrint(c) ==
    /\ pc[c] = "load_print"
    /\ PrintTakeLock(c, "load_serial")
    /\ UNCHANGED << fields, inputs, locals, hist >>

\* its serial lock,
LoadSerial(c) ==
    /\ pc[c] = "load_serial"
    /\ PrintTakeSerial(c, "load_emit")
    /\ UNCHANGED << fields, inputs, locals, hist >>

\* and the text written and both guards dropped; the closure returns
\* Some(()) and the parser goes on to the next section.
LoadEmit(c) ==
    /\ pc[c] = "load_emit"
    /\ PrintDone(c, "load")
    /\ section' = [section EXCEPT ![c] = @ + 1]
    /\ UNCHANGED << fields, inputs, trampoline_table, table, stack_addr, args,
                    entered, lines, hist >>

\* print!("Entry point is ..."), line 149: its print lock,
EntryPrint(c) ==
    /\ pc[c] = "entry_print"
    /\ PrintTakeLock(c, "entry_serial")
    /\ UNCHANGED << fields, inputs, locals, hist >>

\* its serial lock,
EntrySerial(c) ==
    /\ pc[c] = "entry_serial"
    /\ PrintTakeSerial(c, "entry_emit")
    /\ UNCHANGED << fields, inputs, locals, hist >>

\* and the text written and both guards dropped.
EntryEmit(c) ==
    /\ pc[c] = "entry_emit"
    /\ PrintDone(c, "publish")
    /\ UNCHANGED << fields, inputs, locals, hist >>

\* Mutant: the trampoline table is not stored.
PublishWithoutTrampoline(c) ==
    /\ pc[c] = "publish"
    /\ kernel_entry' = Some(Image.entry_point)
    /\ page_table' = table[c]
    /\ lock' = Release({"free_memory"})
    /\ hist' = [hist EXCEPT !.published =
                   Some([entry_point |-> Image.entry_point,
                         root |-> table[c].val.root,
                         tramp_root |-> trampoline_table[c].val.root])]
    /\ Goto(c, "lock_pmem")
    /\ UNCHANGED << serial, free_memory, trampoline_page_table, stack_vaddr,
                    mem, inputs, locals >>

\* Mutant: the free_memory guard of the one-time block outlives the block.
PublishKeepsPmem(c) ==
    /\ pc[c] = "publish"
    /\ kernel_entry' = Some(Image.entry_point)
    /\ trampoline_page_table' = trampoline_table[c]
    /\ page_table' = table[c]
    /\ hist' = [hist EXCEPT !.published =
                   Some([entry_point |-> Image.entry_point,
                         root |-> table[c].val.root,
                         tramp_root |-> trampoline_table[c].val.root])]
    /\ Goto(c, "lock_pmem")
    /\ UNCHANGED << lock, serial, free_memory, stack_vaddr, mem, inputs,
                    locals >>

\* *kernel_entry = Some(pe.entry_point);
\* *tramp_table = Some(trampoline_table); *page_table = Some(table);
\* the block ends and drops its free_memory guard.
Publish(c) ==
    /\ pc[c] = "publish"
    /\ kernel_entry' = Some(Image.entry_point)
    /\ trampoline_page_table' = trampoline_table[c]
    /\ page_table' = table[c]
    /\ lock' = Release({"free_memory"})
    /\ hist' = [hist EXCEPT !.published =
                   Some([entry_point |-> Image.entry_point,
                         root |-> table[c].val.root,
                         tramp_root |-> trampoline_table[c].val.root])]
    /\ Goto(c, "lock_pmem")
    /\ UNCHANGED << serial, free_memory, stack_vaddr, mem, inputs, locals >>

\* ---------------------------------------------------------- per-core work

\* Mutant: the per-core work does not lock free memory.
LockPmemNoAcquire(c) ==
    /\ pc[c] = "lock_pmem"
    /\ IF free_memory.some /\ page_table.some
       THEN Goto(c, "fetch_add")
       ELSE Panic(c)
    /\ UNCHANGED << lock, fields, inputs, locals, hist >>

\* let mut pmem = BOOT_ARGS.free_memory.lock(); pmem.as_mut().expect(..);
\* page_table.as_mut().unwrap()
LockPmem(c) ==
    /\ pc[c] = "lock_pmem"
    /\ Free("free_memory")
    /\ lock' = Acquire(c, "free_memory")
    /\ IF free_memory.some /\ page_table.some
       THEN Goto(c, "fetch_add")
       ELSE Panic(c)
    /\ UNCHANGED << fields, inputs, locals, hist >>

\* Mutant: the cursor advances by the stack size only.
StackStrideWithoutPad == KERNEL_STACK_SIZE

\* BOOT_ARGS.stack_vaddr.fetch_add(KERNEL_STACK_SIZE + KERNEL_STACK_PAD)
StackStride == KERNEL_STACK_SIZE + KERNEL_STACK_PAD

FetchAddStack(c) ==
    /\ pc[c] = "fetch_add"
    /\ stack_addr' = [stack_addr EXCEPT ![c] = Some(stack_vaddr)]
    /\ stack_vaddr' = stack_vaddr + StackStride
    /\ hist' = [hist EXCEPT !.fetch_adds[c] = @ + 1]
    /\ Goto(c, "map_stack")
    /\ UNCHANGED << lock, serial, free_memory, kernel_entry, page_table,
                    trampoline_page_table, mem, inputs, trampoline_table,
                    table, args, entered, lines,
                    section >>

\* Mutant: the stack is mapped executable.
MapStackExecutable(c) ==
    /\ pc[c] = "map_stack"
    /\ LET r == Map(page_table.val, free_memory.val, mem, stack_addr[c].val,
                    KERNEL_STACK_SIZE, TRUE, TRUE, TRUE) IN
       /\ page_table' = Some(r.pt)
       /\ free_memory' = Some(r.pm)
       /\ IF r.ok THEN Goto(c, "tuple") ELSE Panic(c)
    /\ hist' = [hist EXCEPT !.stack_maps[c] = @ + 1]
    /\ UNCHANGED << lock, serial, kernel_entry, trampoline_page_table,
                    stack_vaddr, mem, inputs, locals >>

\* page_table.map(&mut pmem, VirtAddr(stack_addr), PageType::Page4K,
\*                KERNEL_STACK_SIZE, true, true, false).unwrap()
MapStack(c) ==
    /\ pc[c] = "map_stack"
    /\ LET r == Map(page_table.val, free_memory.val, mem, stack_addr[c].val,
                    KERNEL_STACK_SIZE, TRUE, TRUE, FALSE) IN
       /\ page_table' = Some(r.pt)
       /\ free_memory' = Some(r.pm)
       /\ IF r.ok THEN Goto(c, "tuple") ELSE Panic(c)
    /\ hist' = [hist EXCEPT !.stack_maps[c] = @ + 1]
    /\ UNCHANGED << lock, serial, kernel_entry, trampoline_page_table,
                    stack_vaddr, mem, inputs, locals >>

\* Mutant: the two table roots swapped.
BlockValueSwapped(c) ==
    [entry_point |-> kernel_entry.val,
     stack       |-> stack_addr[c].val + KERNEL_STACK_SIZE,
     cr3         |-> AsU32(trampoline_page_table.val.root),
     tramp_cr3   |-> AsU32(page_table.val.root)]

\* The tuple the block evaluates to; the block ends and drops the
\* free_memory, trampoline_page_table, page_table and kernel_entry guards.
BlockValue(c) ==
    [entry_point |-> kernel_entry.val,
     stack       |-> stack_addr[c].val + KERNEL_STACK_SIZE,
     cr3         |-> AsU32(page_table.val.root),
     tramp_cr3   |-> AsU32(trampoline_page_table.val.root)]

\* The tuple is evaluated: kernel_entry.as_ref().unwrap() and
\* tramp_table.as_ref().unwrap() panic on an empty cell.  Then the block
\* ends and its guards are dropped in reverse order of declaration, the
\* free_memory guard first.
EndBlock(c) ==
    /\ pc[c] = "tuple"
    /\ IF kernel_entry.some /\ trampoline_page_table.some
       THEN /\ args' = [args EXCEPT ![c] = Some(BlockValue(c))]
            /\ lock' = Release({"free_memory"})
            /\ Goto(c, "drop_tramp_table")
       ELSE /\ UNCHANGED << args, lock >>
            /\ Panic(c)
    /\ UNCHANGED << fields, inputs, trampoline_table, table, stack_addr,
                    entered, lines, section, hist >>

\* The trampoline_page_table guard is dropped,
DropTrampTable(c) ==
    /\ pc[c] = "drop_tramp_table"
    /\ lock' = Release({"trampoline_page_table"})
    /\ Goto(c, "drop_page_table")
    /\ UNCHANGED << fields, inputs, locals, hist >>

\* then the page_table guard,
DropPageTable(c) ==
    /\ pc[c] = "drop_page_table"
    /\ lock' = Release({"page_table"})
    /\ Goto(c, "drop_kernel_entry")
    /\ UNCHANGED << fields, inputs, locals, hist >>

\* Mutant: the kernel_entry guard is not dropped at the end of the block.
DropKernelEntryKeepsGuard(c) ==
    /\ pc[c] = "drop_kernel_entry"
    /\ Goto(c, "enter64")
    /\ UNCHANGED << lock, fields, inputs, locals, hist >>

\* and the kernel_entry guard last.
DropKernelEntry(c) ==
    /\ pc[c] = "drop_kernel_entry"
    /\ lock' = Release({"kernel_entry"})
    /\ Goto(c, "enter64")
    /\ UNCHANGED << fields, inputs, locals, hist >>

\* enter64(entry_point, stack, &BOOT_ARGS, cr3, tramp_cr3,
\*         KERNEL_PHYS_WINDOW_BASE): never returns.
Enter64(c) ==
    /\ pc[c] = "enter64"
    /\ entered' = [entered EXCEPT ![c] = args[c]]
    /\ hist' = [hist EXCEPT !.handoffs[c] = @ + 1]
    /\ Goto(c, "kernel")
    /\ UNCHANGED << lock, fields, inputs, trampoline_table, table, stack_addr,
                    args, lines,
                    section >>

\* ----------------------------------------------------------- specification

Next ==
    \E c \in Cores :
        \/ SerialLock(c)
        \/ SerialInit(c)
        \/ BannerPrint(c)
        \/ BannerSerial(c)
        \/ BannerEmit(c)
        \/ MmInit(c)
        \/ LockKernelEntry(c)
        \/ LockPageTable(c)
        \/ LockTrampTable(c)
        \/ CheckKernelEntry(c)
        \/ Download(c)
        \/ Parse(c)
        \/ LockPmemOnce(c)
        \/ BuildTrampoline(c)
        \/ BuildKernelTable(c)
        \/ LoadSection(c)
        \/ LoadPrint(c)
        \/ LoadSerial(c)
        \/ LoadEmit(c)
        \/ EntryPrint(c)
        \/ EntrySerial(c)
        \/ EntryEmit(c)
        \/ Publish(c)
        \/ LockPmem(c)
        \/ FetchAddStack(c)
        \/ MapStack(c)
        \/ EndBlock(c)
        \/ DropTrampTable(c)
        \/ DropPageTable(c)
        \/ DropKernelEntry(c)
        \/ Enter64(c)

Spec == Init /\ [][Next]_vars

\* The cells a core must find free to take its next step.
BlockedOn(d) ==
    CASE pc[d] = "serial_lock" -> {"serial"}
      [] pc[d] \in {"banner", "load_print", "entry_print"} -> {"print_lock"}
      [] pc[d] \in {"banner_serial", "load_serial", "entry_serial"} -> {"serial"}
      [] pc[d] \in {"mm_init", "lock_pmem_once", "lock_pmem"} -> {"free_memory"}
      [] pc[d] = "lock_kernel_entry" -> {"kernel_entry"}
      [] pc[d] = "lock_page_table" -> {"page_table"}
      [] pc[d] = "lock_tramp_table" -> {"trampoline_page_table"}
      [] OTHER -> {}

\* The positions of a core in entry().
Positions ==
    {"serial_lock", "serial_check", "banner", "banner_serial", "banner_emit",
     "mm_init", "lock_kernel_entry", "lock_page_table", "lock_tramp_table",
     "check", "download", "parse", "lock_pmem_once", "build_tramp",
     "build_table", "load", "load_print", "load_serial", "load_emit",
     "entry_print", "entry_serial", "entry_emit", "publish", "lock_pmem",
     "fetch_add", "map_stack", "tuple", "drop_tramp_table", "drop_page_table",
     "drop_kernel_entry", "enter64", "kernel", "halted"}

\* Core d has a next step: it has neither halted nor left for the kernel, and
\* the cells its next statement locks are free.
CanStep(d) ==
    /\ pc[d] \notin {"kernel", "halted"}
    /\ \A l \in BlockedOn(d) : Free(l)

\* Everything core c can do.
CoreStep(c) ==
    \/ SerialLock(c) \/ SerialInit(c)
    \/ BannerPrint(c) \/ BannerSerial(c) \/ BannerEmit(c) \/ MmInit(c)
    \/ LockKernelEntry(c) \/ LockPageTable(c) \/ LockTrampTable(c)
    \/ CheckKernelEntry(c) \/ Download(c) \/ Parse(c) \/ LockPmemOnce(c)
    \/ BuildTrampoline(c) \/ BuildKernelTable(c)
    \/ LoadSection(c) \/ LoadPrint(c) \/ LoadSerial(c) \/ LoadEmit(c)
    \/ EntryPrint(c) \/ EntrySerial(c) \/ EntryEmit(c)
    \/ Publish(c) \/ LockPmem(c) \/ FetchAddStack(c) \/ MapStack(c)
    \/ EndBlock(c) \/ DropTrampTable(c) \/ DropPageTable(c)
    \/ DropKernelEntry(c) \/ Enter64(c)

\* Core c executes its next statement.  Every action of core c moves pc[c]
\* and no action of another core does, so the steps of Executes(c) in a run
\* are the steps of CoreStep(c), and it is enabled when core c can step.
Executes(c) ==
    /\ CanStep(c)
    /\ \E p \in Positions \ {pc[c]} : pc' = [pc EXCEPT ![c] = p]

\* The boots in which mm::init finds ample free memory, so that no
\* allocation fails.
AmpleInit == Init /\ pool_size = 64

\* Every core is a processor of its own: it keeps executing entry(), and a
\* core that spins on a cell takes it once the cell stays free.  The runs
\* are those with ample free memory.
FairSpec ==
    AmpleInit /\ [][Next]_vars /\ \A c \in Cores : WF_pc(Executes(c))

\* ------------------------------------------------------------------ claims

\* Positions after the one-time block.
AfterBlock == {"lock_pmem", "fetch_add", "map_stack", "tuple",
               "drop_tramp_table", "drop_page_table", "drop_kernel_entry",
               "enter64", "kernel"}

\* Positions before the kernel_entry guard is taken.
BeforeBlock == {"serial_lock", "serial_check", "banner", "banner_serial",
                "banner_emit", "mm_init",
                "lock_kernel_entry"}

OneTimeCounts ==
    << hist.downloads, hist.parses, hist.tramp_builds, hist.table_builds,
       hist.loads >>

\* C1: the one-time sequence (download, parse, trampoline table, kernel
\* table, section load) runs at most once, only on the first core to take
\* the kernel_entry lock; once any core is past the block every part of it
\* has run exactly once, and every core that found kernel_entry set skipped
\* the block.
C1_OneTimeSectionOnce ==
    /\ \A i \in 1..5 : OneTimeCounts[i] <= 1
    /\ hist.initializers \subseteq
           (IF hist.order = <<>> THEN {} ELSE {hist.order[1]})
    /\ hist.skippers \cap hist.initializers = {}
    /\ \A c \in hist.skippers : kernel_entry.some
    /\ (\E c \in Cores : pc[c] \in AfterBlock) =>
           /\ \A i \in 1..5 : OneTimeCounts[i] = 1
           /\ Cardinality(hist.initializers) = 1

\* Every core has handed off: one initializer, the others skipped.
C1_Witness ==
    /\ \A c \in Cores : pc[c] = "kernel"
    /\ Cardinality(hist.skippers) = NumCores - 1
    /\ hist.downloads = 1

\* C2: every core passes enter64 the published kernel entry address and the
\* published roots of the kernel and trampoline tables, so all cores pass
\* the same three values.
C2_SameHandoffArguments ==
    \A c \in Cores : entered[c].some =>
        /\ hist.published.some
        /\ entered[c].val.entry_point = hist.published.val.entry_point
        /\ entered[c].val.cr3 = AsU32(hist.published.val.root)
        /\ entered[c].val.tramp_cr3 = AsU32(hist.published.val.tramp_root)
        /\ \A d \in Cores : entered[d].some =>
               /\ entered[d].val.entry_point = entered[c].val.entry_point
               /\ entered[d].val.cr3 = entered[c].val.cr3
               /\ entered[d].val.tramp_cr3 = entered[c].val.tramp_cr3

\* Every core has called enter64, the initializer not first.
C2_Witness ==
    /\ \A c \in Cores : entered[c].some
    /\ \E c \in hist.initializers : \E d \in hist.skippers : c > d

StackMapped(c) ==
    pc[c] \in {"tuple", "drop_tramp_table", "drop_page_table",
              "drop_kernel_entry", "enter64", "kernel"}

PagesOf(base, size) ==
    {base + k * PAGE_SIZE : k \in 0..((size - 1) \div PAGE_SIZE)}

\* C3: the stack ranges handed out by the fetch_add are pairwise disjoint and
\* at least KERNEL_STACK_PAD apart, their tops are distinct and are what
\* enter64 receives; a mapped stack covers exactly KERNEL_STACK_SIZE bytes
\* and the pad above it is unmapped.
C3_StacksDisjoint ==
    /\ \A c, d \in Cores :
         (c # d /\ stack_addr[c].some /\ stack_addr[d].some) =>
             LET b1 == stack_addr[c].val
                 b2 == stack_addr[d].val
             IN /\ (b1 + KERNEL_STACK_SIZE <= b2 \/ b2 + KERNEL_STACK_SIZE <= b1)
                /\ (b1 < b2 => b2 - (b1 + KERNEL_STACK_SIZE) >= KERNEL_STACK_PAD)
                /\ b1 + KERNEL_STACK_SIZE # b2 + KERNEL_STACK_SIZE
    /\ \A c \in Cores : entered[c].some =>
           entered[c].val.stack = stack_addr[c].val + KERNEL_STACK_SIZE
    /\ \A c \in Cores : StackMapped(c) =>
           LET b == stack_addr[c].val IN
           /\ \A v \in PagesOf(b, KERNEL_STACK_SIZE) : Mapped(page_table.val, v)
           /\ \A v \in PagesOf(b + KERNEL_STACK_SIZE, KERNEL_STACK_PAD) :
                  ~Mapped(page_table.val, v)

\* All cores hold a mapped stack, handed out in an order other than 1, 2, ...
C3_Witness ==
    /\ \A c \in Cores : entered[c].some
    /\ \E c, d \in Cores : c < d /\ stack_addr[c].val > stack_addr[d].val

WindowAddrs == PagesOf(0, KERNEL_PHYS_WINDOW_SIZE)

\* The kernel table is fully built: the linear map is complete and the
\* section loop has gone over every section of the image.
KernelTableBuilt(pt) ==
    /\ \A p \in WindowAddrs : Mapped(pt, KERNEL_PHYS_WINDOW_BASE + p)
    /\ Len(hist.map_init) = Len(Image.sections)

\* C4: kernel_entry, page_table and trampoline_page_table are all unset or
\* all set, and a set page_table is a fully built kernel table, in every
\* reachable state, also after the initializing core failed part-way.
C4_AllOrNothing ==
    /\ kernel_entry.some <=> page_table.some
    /\ page_table.some <=> trampoline_page_table.some
    /\ page_table.some => KernelTableBuilt(page_table.val)

\* The initializing core halted with its kernel table half built while
\* another core waits for the kernel_entry lock.
C4_Witness ==
    \E c, d \in Cores :
        /\ pc[c] = "halted"
        /\ Holds(c, "kernel_entry")
        /\ trampoline_table[c].some
        /\ ~table[c].some
        /\ pc[d] = "lock_kernel_entry"
        /\ ~kernel_entry.some

\* C5 as claimed: a core that failed stops only itself, so no other core is
\* ever left waiting for a cell whose holder has halted.
C5_FailureStopsOnlyThatCore ==
    \A d \in Cores : \A l \in BlockedOn(d) :
        lock[l] = 0 \/ pc[lock[l]] # "halted"

\* C5 as amended: a core that failed halts holding the kernel_entry,
\* page_table and trampoline_page_table guards; every other core has either
\* already left the locked block (and hands off) or is still in front of the
\* kernel_entry lock, which it can no longer take.
C5_FailureBlocksLaterCores ==
    \A c \in Cores : pc[c] = "halted" =>
        /\ Holds(c, "kernel_entry")
        /\ Holds(c, "page_table")
        /\ Holds(c, "trampoline_page_table")
        /\ \A d \in Cores \ {c} : pc[d] \in BeforeBlock \cup {"enter64", "kernel"}

\* A core failed after another had handed off, a third waits for the lock.
C5_Witness ==
    \E c, d, e \in Cores :
        /\ pc[c] = "halted"
        /\ pc[d] = "kernel"
        /\ pc[e] = "lock_kernel_entry"

\* C6 as claimed: when map_init fails for a section no later section is
\* loaded, nothing is published and the initializing core never calls
\* enter64.
C6_MapInitFailureIsFatal ==
    \A i \in DOMAIN hist.map_init : ~hist.map_init[i] =>
        /\ i = Len(hist.map_init)
        /\ ~kernel_entry.some
        /\ ~page_table.some
        /\ ~trampoline_page_table.some
        /\ \A c \in hist.initializers : pc[c] \notin {"enter64", "kernel"}

\* What C7 asks of section k of the image in kernel table pt.
SectionLoaded(pt, k) ==
    LET s == Image.sections[k] IN
    /\ \A v \in PagesOf(s.vaddr, s.vsize) :
           /\ Mapped(pt, v)
           /\ EntryPresent(pt.leaves[v])
           /\ EntryWrite(pt.leaves[v]) = s.write
           /\ EntryNX(pt.leaves[v]) = ~s.execute
    /\ \A i \in 0..(s.vsize - 1) :
           ByteAt(pt, s.vaddr + i) = IF i < Len(s.raw) THEN s.raw[i + 1] ELSE 0

\* C7 as claimed: after loading, every section the parser yielded is mapped
\* at [vaddr, vaddr + vsize) with its permissions, holding its raw bytes
\* followed by zeros.
C7_EverySectionLoaded ==
    page_table.some =>
        \A k \in DOMAIN Image.sections : SectionLoaded(page_table.val, k)

\* C8: once the kernel table is published, every page of the physical window
\* is mapped present at KERNEL_PHYS_WINDOW_BASE + p to physical address p.
C8_WindowMapsPhysicalMemory ==
    page_table.some =>
        \A p \in WindowAddrs :
            /\ Mapped(page_table.val, KERNEL_PHYS_WINDOW_BASE + p)
            /\ EntryPresent(page_table.val.leaves[KERNEL_PHYS_WINDOW_BASE + p])
            /\ EntryAddr(page_table.val.leaves[KERNEL_PHYS_WINDOW_BASE + p]) = p

\* The table was published after a section aimed at the window was loaded.
C8_Witness ==
    /\ page_table.some
    /\ \E k \in DOMAIN Image.sections :
           Image.sections[k].vaddr - KERNEL_PHYS_WINDOW_BASE \in WindowAddrs
    /\ \E c \in Cores : pc[c] = "kernel"

\* C9 as claimed: every entry of the linear window is present, writable and
\* no-execute.
C9_WindowNoExecute ==
    page_table.some =>
        \A p \in WindowAddrs :
            LET e == page_table.val.leaves[KERNEL_PHYS_WINDOW_BASE + p] IN
            EntryPresent(e) /\ EntryWrite(e) /\ EntryNX(e)

\* C9 as amended: every entry of the linear window is present and writable
\* with the no-execute bit clear; its value is p | PAGE_WRITE | PAGE_PRESENT.
C9_WindowReadWriteExecutable ==
    page_table.some =>
        \A p \in WindowAddrs :
            LET e == page_table.val.leaves[KERNEL_PHYS_WINDOW_BASE + p] IN
            /\ EntryPresent(e) /\ EntryWrite(e) /\ ~EntryNX(e)
            /\ e.lo = p + PAGE_WRITE + PAGE_PRESENT

\* The kernel table is published and a core runs the kernel on it.
C9_Witness ==
    /\ page_table.some
    /\ WindowAddrs # {}
    /\ \E c \in Cores : entered[c].some

\* The pages that intersect [0, bootloader_end).
BootloaderPages ==
    IF bootloader_end = 0 THEN {} ELSE PagesOf(0, bootloader_end)

\* C10: once the trampoline table is published, every page that intersects
\* [0, bootloader_end) is mapped to itself at its identity address and at
\* KERNEL_PHYS_WINDOW_BASE + address, with the same present/write bits.
C10_TrampolineCoversBootloader ==
    trampoline_page_table.some =>
        \A p \in BootloaderPages :
            LET t == trampoline_page_table.val IN
            /\ Mapped(t, p) /\ Mapped(t, KERNEL_PHYS_WINDOW_BASE + p)
            /\ EntryAddr(t.leaves[p]) = p
            /\ EntryAddr(t.leaves[KERNEL_PHYS_WINDOW_BASE + p]) = p
            /\ EntryPresent(t.leaves[p])
            /\ EntryPresent(t.leaves[KERNEL_PHYS_WINDOW_BASE + p])
            /\ EntryWrite(t.leaves[p])
            /\ EntryWrite(t.leaves[KERNEL_PHYS_WINDOW_BASE + p])
            /\ t.leaves[p] = t.leaves[KERNEL_PHYS_WINDOW_BASE + p]

\* The trampoline table is published for a bootloader that ends inside a page.
C10_Witness ==
    /\ trampoline_page_table.some
    /\ bootloader_end % PAGE_SIZE # 0
    /\ Cardinality(BootloaderPages) = 2

\* C11: in a run in which no core fails, every core eventually calls
\* enter64; a core never does more than one fetch_add, one stack mapping and
\* one handoff, and has done exactly one of each once it is in the kernel.
C11_EveryCoreHandsOffOnce ==
    /\ [](\A c \in Cores :
            /\ hist.fetch_adds[c] <= 1
            /\ hist.stack_maps[c] <= 1
            /\ hist.handoffs[c] <= 1
            /\ pc[c] = "kernel" =>
                   /\ hist.fetch_adds[c] = 1
                   /\ hist.stack_maps[c] = 1
                   /\ hist.handoffs[c] = 1)
    /\ <>(\/ \E d \in Cores : pc[d] = "halted"
          \/ \A c \in Cores : pc[c] = "kernel")

\* All cores are in the kernel after one fetch_add, stack mapping and handoff
\* each, none has failed.
C11_Witness ==
    /\ \A c \in Cores :
           /\ pc[c] = "kernel"
           /\ hist.fetch_adds[c] = 1 /\ hist.stack_maps[c] = 1
           /\ hist.handoffs[c] = 1
    /\ stack_vaddr = KERNEL_STACKS_BASE + NumCores * StackStride

\* Positions after the serial block of entry().
AfterSerial == Positions \ {"serial_lock", "serial_check"}

\* C12: the serial driver is set up at most once, by the first core that
\* locks the serial cell; once that core is through, the driver is set and
\* every later core leaves it alone.
C12_SerialInitializedOnce ==
    /\ hist.serial_inits <= 1
    /\ hist.serial_initializers \subseteq
           ({hist.serial_first} \ {0})
    /\ \A c \in Cores : pc[c] \in AfterSerial =>
           /\ serial
           /\ hist.serial_inits = 1
           /\ Cardinality(hist.serial_initializers) = 1
           /\ (c \notin hist.serial_initializers =>
                  pc[c] \notin {"banner", "banner_serial", "banner_emit"})

\* Every core is through the serial block; a core other than core 1 set the
\* driver up.
C12_Witness ==
    /\ \A c \in Cores : pc[c] \in AfterSerial
    /\ hist.serial_inits = 1
    /\ 1 \notin hist.serial_initializers

\* Positions at and after the call of enter64.
AtHandoff == {"enter64", "kernel"}

\* The leaf of the published kernel table at page v is present, writable and
\* no-execute.
StackPage(v) ==
    /\ Mapped(page_table.val, v)
    /\ EntryPresent(page_table.val.leaves[v])
    /\ EntryWrite(page_table.val.leaves[v])
    /\ EntryNX(page_table.val.leaves[v])

\* C13: when a core calls enter64 the kernel entry is set, both tables are
\* published, and the KERNEL_STACK_SIZE bytes below the stack top it passes
\* are mapped present, writable and no-execute in the kernel table by that
\* core's own successful stack mapping.
C13_HandoffAfterStackMapped ==
    \A c \in Cores : pc[c] \in AtHandoff =>
        /\ kernel_entry.some
        /\ page_table.some
        /\ trampoline_page_table.some
        /\ args[c].some
        /\ hist.stack_maps[c] = 1
        /\ args[c].val.stack = stack_addr[c].val + KERNEL_STACK_SIZE
        /\ \A v \in PagesOf(args[c].val.stack - KERNEL_STACK_SIZE,
                            KERNEL_STACK_SIZE) : StackPage(v)

\* A core that did not build the tables is about to call enter64 while
\* another core has not mapped its stack yet.
C13_Witness ==
    \E c, d \in Cores :
        /\ pc[c] = "enter64"
        /\ c \in hist.skippers
        /\ pc[d] \in BeforeBlock
        /\ ~stack_addr[d].some

\* Table q has the root of table p, every table frame of p and every leaf of
\* p with the same entry.
Extends(p, q) ==
    /\ q.root = p.root
    /\ p.tables \subseteq q.tables
    /\ \A v \in DOMAIN p.leaves :
           /\ v \in DOMAIN q.leaves
           /\ q.leaves[v] = p.leaves[v]

\* The pages core c maps for its stack.
StackPagesOf(c) == PagesOf(stack_addr[c].val, KERNEL_STACK_SIZE)

\* C14: once the kernel table is published it stays published with the same
\* root, no step removes or changes one of its mappings, and a successful
\* stack mapping adds exactly the pages of that core's stack, which were not
\* mapped before.
C14_PublishedTableOnlyGrows ==
    [][page_table.some =>
         /\ page_table'.some
         /\ Extends(page_table.val, page_table'.val)
         /\ \A c \in Cores : (pc[c] = "map_stack" /\ pc'[c] = "tuple") =>
                /\ DOMAIN page_table'.val.leaves =
                       DOMAIN page_table.val.leaves \cup StackPagesOf(c)
                /\ StackPagesOf(c) \cap DOMAIN page_table.val.leaves = {}]_vars

\* The published table holds the window, a section and the stacks of two
\* cores, the second mapped by a core that found the kernel loaded.
C14_Witness ==
    \E c, d \in Cores :
        /\ c # d
        /\ pc[c] = "kernel"
        /\ pc[d] = "tuple"
        /\ d \in hist.skippers
        /\ page_table.val.root = hist.published.val.root
        /\ \A a \in WindowAddrs :
               Mapped(page_table.val, KERNEL_PHYS_WINDOW_BASE + a)
        /\ \A v \in StackPagesOf(c) \cup StackPagesOf(d) :
               Mapped(page_table.val, v)
        /\ \E i \in 1..Len(hist.map_init) : hist.map_init[i]

\* Positions at which the next statement is a page-table-building call:
\* PageTable::new and map_raw, map_init, map.
Building == {"build_tramp", "build_table", "load", "map_stack"}

\* C15: a core whose next statement builds page tables holds the free_memory
\* guard and the guards of the page_table and trampoline_page_table cells,
\* and no two cores are at such a statement at once.
C15_BuildingUnderLocks ==
    /\ \A c \in Cores : pc[c] \in Building =>
           /\ Holds(c, "free_memory")
           /\ Holds(c, "page_table")
           /\ Holds(c, "trampoline_page_table")
    /\ \A c, d \in Cores :
           (pc[c] \in Building /\ pc[d] \in Building) => c = d

\* One core maps its stack after another has handed off, while a third waits
\* in mm::init for the free_memory lock.
C15_Witness ==
    \E c, d, e \in Cores :
        /\ pc[c] = "map_stack"
        /\ pc[d] = "kernel"
        /\ pc[e] = "mm_init"
        /\ ~Free("free_memory")

\* Positions inside the one-time block.
InOneTime == {"check", "download", "parse", "lock_pmem_once", "build_tramp",
              "build_table", "load", "load_print", "load_serial", "load_emit",
              "entry_print", "entry_serial", "entry_emit", "publish"}

\* C16: the download runs at most once in every run; when the initializing
\* core has failed before publishing, it is the only core that ever entered
\* the one-time block, no part of the block has run twice, and every other
\* core is still in front of the kernel_entry lock.
C16_NoRetryAfterFailure ==
    /\ hist.downloads <= 1
    /\ \A c \in Cores : (pc[c] = "halted" /\ ~kernel_entry.some) =>
           /\ hist.initializers = {c}
           /\ hist.downloads = 1
           /\ \A i \in 1..5 : OneTimeCounts[i] <= 1
           /\ \A d \in Cores \ {c} : pc[d] \in BeforeBlock

\* The download failed on the initializing core and every other core has
\* arrived at the kernel_entry lock.
C16_Witness ==
    \E c \in Cores :
        /\ pc[c] = "halted"
        /\ hist.downloads = 1
        /\ hist.parses = 0
        /\ \A d \in Cores \ {c} : pc[d] = "lock_kernel_entry"

\* Positions of the per-core work: the free_memory lock, the fetch_add, the
\* stack mapping and the tuple.
PerCoreWork == {"lock_pmem", "fetch_add", "map_stack", "tuple"}

\* C17 as claimed: a core that found the kernel loaded does its stack
\* allocation without holding or waiting for any lock.
C17_StackAllocationLockFree ==
    \A c \in hist.skippers : pc[c] \in PerCoreWork =>
        /\ BlockedOn(c) = {}
        /\ \A l \in LockNames : ~Holds(c, l)

\* C17 as amended: every core does its per-core work holding the
\* kernel_entry, page_table and trampoline_page_table guards, waits for the
\* free_memory lock and holds it from the fetch_add to the end of the block;
\* no other core is inside the locked block meanwhile, so the fetch_add never
\* runs concurrently with another.
C17_PerCoreWorkSerialized ==
    \A c \in Cores : pc[c] \in PerCoreWork =>
        /\ Holds(c, "kernel_entry")
        /\ Holds(c, "page_table")
        /\ Holds(c, "trampoline_page_table")
        /\ pc[c] = "lock_pmem" => BlockedOn(c) = {"free_memory"}
        /\ pc[c] # "lock_pmem" => Holds(c, "free_memory")
        /\ \A d \in Cores \ {c} :
               pc[d] \in BeforeBlock \cup AtHandoff \cup {"halted"}

\* A core that found the kernel loaded is at its fetch_add, another has
\* handed off and a third waits for the kernel_entry lock.
C17_Witness ==
    \E c, d, e \in Cores :
        /\ c \in hist.skippers
        /\ pc[c] = "fetch_add"
        /\ pc[d] = "kernel"
        /\ pc[e] = "lock_kernel_entry"

\* The frames that hold a table: its root and its intermediate levels.
TableFrames(pt) == {pt.root} \cup {t.frame : t \in pt.tables}

\* The frames its present leaf entries point to.
TargetFrames(pt) == {EntryAddr(pt.leaves[v]) : v \in DOMAIN pt.leaves}

\* The virtual pages of the linear map of physical memory.
WindowVaddrs == {KERNEL_PHYS_WINDOW_BASE + a : a \in WindowAddrs}

\* The frames map and map_init allocated for pages of a table: the targets
\* of its entries outside the linear map.
AllocatedPages(pt) ==
    {EntryAddr(pt.leaves[v]) : v \in DOMAIN pt.leaves \ WindowVaddrs}

\* C18 as claimed: no frame that is a root, an intermediate table or the
\* target of a present entry of one published table is one of the other.
C18_NoSharedFrames ==
    (page_table.some /\ trampoline_page_table.some) =>
        (TableFrames(page_table.val) \cup TargetFrames(page_table.val))
          \cap (TableFrames(trampoline_page_table.val)
                  \cup TargetFrames(trampoline_page_table.val)) = {}

\* C18 as amended: the two published tables share no root or intermediate
\* frame; the frames allocated for section and stack pages of the kernel
\* table are pairwise distinct and are no table frame of either table; but
\* both tables have present entries whose target is the same physical page,
\* for every page of the bootloader that the linear map covers.
C18_TableFramesPrivate ==
    (page_table.some /\ trampoline_page_table.some) =>
        LET k == page_table.val
            t == trampoline_page_table.val
        IN /\ TableFrames(k) \cap TableFrames(t) = {}
           /\ AllocatedPages(k) \cap (TableFrames(k) \cup TableFrames(t)) = {}
           /\ \A v, w \in DOMAIN k.leaves \ WindowVaddrs :
                  v # w => EntryAddr(k.leaves[v]) # EntryAddr(k.leaves[w])
           /\ BootloaderPages \cap WindowAddrs
                  \subseteq TargetFrames(k) \cap TargetFrames(t)
           /\ BootloaderPages \cap WindowAddrs # {}

\* Both tables are published, the kernel table holds a loaded section and
\* two stacks, and both tables map physical page 0.
C18_Witness ==
    /\ page_table.some
    /\ trampoline_page_table.some
    /\ \E i \in 1..Len(hist.map_init) : hist.map_init[i]
    /\ \E c, d \in Cores : c # d /\ pc[c] = "kernel" /\ pc[d] = "kernel"
    /\ Cardinality(AllocatedPages(page_table.val)) >= 5
    /\ 0 \in TargetFrames(page_table.val)
             \cap TargetFrames(trampoline_page_table.val)

\* The order in which entry() takes its locks inside the locked block:
\* kernel_entry, page_table, trampoline_page_table, free_memory, then the
\* print and serial locks inside print!.
LockRank(l) ==
    CASE l = "kernel_entry" -> 1
      [] l = "page_table" -> 2
      [] l = "trampoline_page_table" -> 3
      [] l = "free_memory" -> 4
      [] l = "print_lock" -> 5
      [] l = "serial" -> 6

\* The guards core c holds.
HeldBy(c) == {l \in LockNames : Holds(c, l)}

\* C19: while no core has failed, either every core has handed off or some
\* core can take its next step; a core never waits for a lock it holds; every
\* lock a core waits for comes later in the common order than every lock it
\* holds; the serial lock of the first block is taken and held alone.
C19_DeadlockFree ==
    /\ (\A c \in Cores : pc[c] # "halted") =>
           \/ \A c \in Cores : pc[c] = "kernel"
           \/ \E c \in Cores : CanStep(c)
    /\ \A c \in Cores :
           /\ BlockedOn(c) \cap HeldBy(c) = {}
           /\ \A h \in HeldBy(c) : \A l \in BlockedOn(c) :
                  LockRank(h) < LockRank(l)
           /\ pc[c] = "serial_lock" => HeldBy(c) = {}
           /\ pc[c] = "serial_check" => HeldBy(c) = {"serial"}
           /\ pc[c] = "banner" => HeldBy(c) = {}
           /\ pc[c] = "banner_serial" => HeldBy(c) = {"print_lock"}

\* The initializing core has left the one-time block and is about to lock
\* free_memory again, which is free; the other cores wait for kernel_entry;
\* no core has failed.
C19_Witness ==
    \E c \in hist.initializers :
        /\ pc[c] = "lock_pmem"
        /\ Free("free_memory")
        /\ HeldBy(c) = {"kernel_entry", "page_table", "trampoline_page_table"}
        /\ \A d \in Cores \ {c} : pc[d] = "lock_kernel_entry"

\* C20: a core that calls enter64 holds no lock, so no core still in the
\* bootloader is waiting for a lock held by a core that has handed off.
C20_HandoffHoldsNoLock ==
    /\ \A c \in Cores : pc[c] \in AtHandoff => HeldBy(c) = {}
    /\ \A d \in Cores : \A l \in BlockedOn(d) :
           lock[l] = 0 \/ pc[lock[l]] \notin AtHandoff

\* One core is in the kernel and another has since taken the kernel_entry
\* lock it released.
C20_Witness ==
    \E c, d \in Cores :
        /\ pc[c] = "kernel"
        /\ pc[d] = "lock_page_table"
        /\ Holds(d, "kernel_entry")

====
